---------------------------- MODULE Spec2Model ----------------------------
(***************************************************************************)
(* Model of the MRWA core: the orchestrator engine (plan generation and    *)
(* step execution), the HTTP execution endpoints, the output validator and *)
(* the failure corrector.                                                  *)
(*                                                                         *)
(* Python objects live in `heap` and are named by their index, so that two *)
(* plans sharing a step object is something the model can express.  None   *)
(* is the string "None" for text fields and -1 for datetimes.              *)
(*                                                                         *)
(* Time is counted in ticks of TICK_MS milliseconds.  A stored datetime is *)
(* kept as its age: the number of ticks that have passed since utcnow()    *)
(* returned it, capped at MaxAge.  utcnow() therefore yields age 0, the    *)
(* difference of two datetimes is the difference of their ages, and time   *)
(* passing (a sleep that ends) ages every stored datetime.                 *)
(*                                                                         *)
(* Float scores and confidences are kept as integer hundredths.            *)
(***************************************************************************)
EXTENDS Integers, Sequences, FiniteSets, TLC

VARIABLES
    engine,      \* the OrchestratorEngine instance: gemini_available, model
    heap,        \* every ExecutionStep object created so far
    plans,       \* the plans generate_plan returned to library callers
    calls,       \* execute_step coroutines suspended in asyncio.sleep
    executions,  \* what the HTTP API last reported for each execution
    corrector,   \* the Corrector instance: constructed, model, raised
    ret,         \* the last value returned by a validator / corrector call
    cache,       \* the RedisClient instance and the Redis server it talks to
    awaiting     \* generate_plan coroutines awaiting the reasoning service

vars ==
    <<engine, heap, plans, calls, executions, corrector, ret, cache, awaiting>>

None == "None"
NoTime == -1

(***************************************************************************)
(* Bounds of the model.                                                    *)
(***************************************************************************)
MaxPlans == 2        \* plans generated in one behaviour of Spec
MaxCalls == 1        \* execute_step calls in one behaviour of Spec
MaxRunCalls == 5     \* execute_step calls in one behaviour of SpecRun
MaxExecCalls == 3    \* execute_step calls in one behaviour of SpecExec
MaxAge == 3          \* ages of datetimes are capped here
MaxLines == 7        \* lines of a plan the reasoning service answers
MaxFields == 2       \* lines of a diagnosis the reasoning service answers
MaxWords == 2        \* words of an error text

(***************************************************************************)
(* Program constants.                                                      *)
(***************************************************************************)
MAX_RETRIES_PER_STEP == 3
MAX_EXECUTION_TIME_SECONDS == 3600
MAX_PLAN_STEPS == 6
EXECUTE_SLEEP_MS == 1500      \* asyncio.sleep(1.5)
APPLY_SLEEP_MS == 500         \* asyncio.sleep(0.5)

\* One tick is the shortest sleep of the program.
TICK_MS == APPLY_SLEEP_MS
EXECUTE_SLEEP_TICKS == EXECUTE_SLEEP_MS \div TICK_MS
APPLY_SLEEP_TICKS == APPLY_SLEEP_MS \div TICK_MS

\* Values of settings.MAX_EXECUTION_TIME_SECONDS considered (environment).
ConfiguredDeadlines == {1, MAX_EXECUTION_TIME_SECONDS}
TicksPerSecond == 1000 \div TICK_MS

InputTypes == {"pdf", "code", "docx"}   \* "docx" is a kind the catalog lacks
\* create_execution reads payload.get('input_type', 'pdf')
RunInputTypes == {"pdf"}

Range(s) == {s[i] : i \in DOMAIN s}

(***************************************************************************)
(* ExecutionStep                                                           *)
(***************************************************************************)
ExecutionStep(id, name, description) ==
    [id |-> id, name |-> name, description |-> description,
     status |-> "pending", output |-> None, error |-> None, attempts |-> 0,
     started_at |-> NoTime, completed_at |-> NoTime, duration_ms |-> 0]

to_dict(step) ==
    [id |-> step.id, name |-> step.name, description |-> step.description,
     status |-> step.status, output |-> step.output, error |-> step.error,
     attempts |-> step.attempts, duration_ms |-> step.duration_ms]

(***************************************************************************)
(* OrchestratorEngine.__init__                                             *)
(***************************************************************************)
OrchestratorEngine_init(GEMINI_AVAILABLE, GEMINI_API_KEY, configure_raises) ==
    LET available == GEMINI_AVAILABLE /\ GEMINI_API_KEY
    IN  IF available /\ ~configure_raises
        THEN [gemini_available |-> TRUE, model |-> "GenerativeModel", raised |-> FALSE]
        ELSE [gemini_available |-> FALSE, model |-> None, raised |-> FALSE]

(***************************************************************************)
(* _get_default_plan: the catalog is rebuilt on every call, so every call  *)
(* returns fresh ExecutionStep objects.                                    *)
(***************************************************************************)
PdfPlan ==
    << ExecutionStep(1, "Extract document structure", "Parse PDF sections"),
       ExecutionStep(2, "Analyze content", "Extract key concepts"),
       ExecutionStep(3, "Generate summary", "Create document summary"),
       ExecutionStep(4, "Validate output", "Ensure completeness") >>

CodePlan ==
    << ExecutionStep(1, "Parse code", "Build syntax tree"),
       ExecutionStep(2, "Analyze dependencies", "Map imports"),
       ExecutionStep(3, "Detect patterns", "Identify patterns"),
       ExecutionStep(4, "Generate docs", "Create documentation") >>

UrlPlan ==
    << ExecutionStep(1, "Fetch content", "Download page"),
       ExecutionStep(2, "Extract data", "Parse structure"),
       ExecutionStep(3, "Analyze relevance", "Rank content"),
       ExecutionStep(4, "Summarize", "Generate insights") >>

YoutubePlan ==
    << ExecutionStep(1, "Extract metadata", "Get video info"),
       ExecutionStep(2, "Process transcript", "Clean captions"),
       ExecutionStep(3, "Identify key points", "Main topics"),
       ExecutionStep(4, "Generate summary", "Video overview") >>

\* A catalog whose document entry is keyed "document": "pdf" is then an
\* unknown kind, and unknown kinds are served the code plan.
DefaultCatalog_document_key(input_type) ==
    CASE input_type = "document" -> PdfPlan
      [] input_type = "code" -> CodePlan
      [] input_type = "url" -> UrlPlan
      [] input_type = "youtube" -> YoutubePlan
      [] OTHER -> CodePlan

\* A catalog looked up with plans[input_type] semantics made total: an
\* unknown kind is served no step at all.
DefaultCatalog_known_only(input_type) ==
    CASE input_type = "pdf" -> PdfPlan
      [] input_type = "code" -> CodePlan
      [] input_type = "url" -> UrlPlan
      [] input_type = "youtube" -> YoutubePlan
      [] OTHER -> <<>>

\* plans.get(input_type, plans["pdf"])
DefaultCatalog(input_type) ==
    CASE input_type = "pdf" -> PdfPlan
      [] input_type = "code" -> CodePlan
      [] input_type = "url" -> UrlPlan
      [] input_type = "youtube" -> YoutubePlan
      [] OTHER -> PdfPlan

\* A pool of step objects: a plan is served the objects already made, as
\* far as they go.
Allocate_pooled(h, objs) ==
    IF Len(h) >= Len(objs)
    THEN [heap |-> h, plan |-> [i \in 1..Len(objs) |-> i]]
    ELSE [heap |-> h \o objs, plan |-> [i \in 1..Len(objs) |-> Len(h) + i]]

\* The objects a call allocates are appended to the heap; the plan is the
\* list of their addresses.
Allocate(h, objs) ==
    [heap |-> h \o objs, plan |-> [i \in 1..Len(objs) |-> Len(h) + i]]

\* A fallback that builds each catalog entry once and hands out the same
\* ExecutionStep objects on every later call.
_get_default_plan_cached(h, input_type) ==
    LET objs == DefaultCatalog(input_type)
        found == {k \in 0..(Len(h) - Len(objs)) :
                     \A i \in 1..Len(objs) : /\ h[k + i].id = objs[i].id
                                             /\ h[k + i].name = objs[i].name}
    IN  IF found = {} THEN Allocate(h, objs)
        ELSE LET k == CHOOSE x \in found : \A y \in found : x <= y
             IN  [heap |-> h, plan |-> [i \in 1..Len(objs) |-> k + i]]

_get_default_plan(h, input_type) == Allocate(h, DefaultCatalog(input_type))

(***************************************************************************)
(* _generate_plan_gemini: a response text is a sequence of lines, a line a *)
(* sequence of tokens; ":" and "-" are the separator characters the parser *)
(* looks for, every other token is a stripped run of other characters.     *)
(***************************************************************************)
RECURSIVE Join(_)
Join(toks) == IF toks = <<>> THEN "" ELSE Head(toks) \o Join(Tail(toks))

RECURSIVE IndexOf(_, _, _)
IndexOf(toks, t, i) ==
    IF i > Len(toks) THEN 0
    ELSE IF toks[i] = t THEN i ELSE IndexOf(toks, t, i + 1)

\* line.split(":", 1)[1], then split("-", 1) when it holds a "-"
ParseLine(i, line) ==
    LET c == IndexOf(line, ":", 1)
        content == SubSeq(line, c + 1, Len(line))
        d == IndexOf(content, "-", 1)
    IN  IF d > 0
        THEN ExecutionStep(i + 1, Join(SubSeq(content, 1, d - 1)),
                           Join(SubSeq(content, d + 1, Len(content))))
        ELSE ExecutionStep(i + 1, Join(content), "Execute step")

\* The loop without its break.
RECURSIVE ParseLines_uncapped(_, _, _)
ParseLines_uncapped(lines, i, steps) ==
    IF i >= Len(lines) THEN steps
    ELSE IF IndexOf(lines[i + 1], ":", 1) = 0
         THEN ParseLines_uncapped(lines, i + 1, steps)
         ELSE ParseLines_uncapped(lines, i + 1,
                                  Append(steps, ParseLine(i, lines[i + 1])))

\* the loop over enumerate(response.text.splitlines()); i is 0-based
RECURSIVE ParseLines(_, _, _)
ParseLines(lines, i, steps) ==
    IF i >= Len(lines) \/ Len(steps) >= MAX_PLAN_STEPS THEN steps
    ELSE IF IndexOf(lines[i + 1], ":", 1) = 0
         THEN ParseLines(lines, i + 1, steps)
         ELSE ParseLines(lines, i + 1, Append(steps, ParseLine(i, lines[i + 1])))

_generate_plan_gemini(h, input_type, text) ==
    LET steps == ParseLines(text, 0, <<>>)
    IN  IF steps = <<>> THEN _get_default_plan(h, input_type)
        ELSE Allocate(h, steps)

\* Outcomes of model.generate_content: it raises, or it answers with a text.
Lines ==
    { <<>>,
      <<"Sure, here is the plan">>,
      <<"Step 1", ":", "Fetch", "-", "Download page">>,
      <<"Step 2", ":", "Summarize">> }

RECURSIVE SeqsUpTo(_, _)
SeqsUpTo(S, n) ==
    IF n = 0 THEN {<<>>}
    ELSE LET shorter == SeqsUpTo(S, n - 1)
         IN  shorter \cup {Append(s, x) : s \in {t \in shorter : Len(t) = n - 1}, x \in S}

GeminiOutcomes ==
    {[raises |-> TRUE, text |-> <<>>]}
        \cup {[raises |-> FALSE, text |-> t] : t \in SeqsUpTo(Lines, MaxLines)}

\* The outcomes drawn while plans are being executed: the call raises, or
\* the answer holds two step lines after a line of prose.
SampleOutcomes ==
    { [raises |-> TRUE, text |-> <<>>],
      [raises |-> FALSE, text |-> << <<"Sure, here is the plan">>,
                                     <<"Step 1", ":", "Fetch", "-", "Download page">>,
                                     <<"Step 2", ":", "Summarize">> >>] }

\* generate_plan: the reasoning service is asked only when self.model is set
generate_plan(eng, h, input_type, outcome) ==
    IF eng.model # None /\ ~outcome.raises
    THEN _generate_plan_gemini(h, input_type, outcome.text)
    ELSE _get_default_plan(h, input_type)

(***************************************************************************)
(* Time passing by d ticks.                                                *)
(***************************************************************************)
Min(a, b) == IF a < b THEN a ELSE b
Max(a, b) == IF a > b THEN a ELSE b

Older(at, d) == IF at = NoTime THEN NoTime ELSE Min(at + d, MaxAge)

AgeSteps(h, d) ==
    [i \in DOMAIN h |-> [h[i] EXCEPT !.started_at = Older(@, d),
                                     !.completed_at = Older(@, d)]]

AgeExecutions(es, d) ==
    [i \in DOMAIN es |-> [es[i] EXCEPT !.created_at = Older(@, d)]]

AgeCalls(cs, d) == {[c EXCEPT !.sleep = Max(@ - d, 0)] : c \in cs}

(***************************************************************************)
(* execute_step, up to and after its await.                                *)
(***************************************************************************)
TotalAttempts(h) ==
    LET RECURSIVE Sum(_)
        Sum(i) == IF i = 0 THEN 0 ELSE h[i].attempts + Sum(i - 1)
    IN  Sum(Len(h))

\* An entry that leaves a step alone once it has completed.
execute_step_enter_skip_completed(step) ==
    IF step.status = "completed" THEN step
    ELSE [step EXCEPT !.attempts = @ + 1, !.status = "executing", !.started_at = 0]

\* lines 201-203: entry of execute_step
execute_step_enter(step) ==
    [step EXCEPT !.attempts = @ + 1, !.status = "executing", !.started_at = 0]

\* lines 209-226: after the sleep; `failed` is random.random() < 0.2
execute_step_finish(step, failed) ==
    LET timed == [step EXCEPT !.completed_at = 0,
                              !.duration_ms = step.started_at * TICK_MS]
    IN  IF failed
        THEN [timed EXCEPT !.status = "failed", !.error = "Validation failed"]
        ELSE [timed EXCEPT !.status = "completed",
                           !.output = "Completed: " \o step.name]

\* the dict execute_step returns
execute_step_result(step, failed) ==
    IF failed
    THEN [op |-> "execute_step", success |-> FALSE, error |-> step.error,
          step |-> to_dict(step)]
    ELSE [op |-> "execute_step", success |-> TRUE, output |-> step.output,
          step |-> to_dict(step)]

PlanSteps == UNION {Range(p.steps) : p \in Range(plans)}

\* The n-th call in flight on a step is told apart from the others by n.
ExecuteStepBegin(s) ==
    /\ s \in PlanSteps
    /\ heap' = [heap EXCEPT ![s] = execute_step_enter(heap[s])]
    /\ calls' = calls \cup {[step |-> s, sleep |-> EXECUTE_SLEEP_TICKS,
                             n |-> Cardinality({c \in calls : c.step = s}) + 1]}
    /\ UNCHANGED <<engine, plans, executions, corrector, ret, cache, awaiting>>

\* The sleep ends once the rest of it has passed.
ExecuteStepEnd(c, failed) ==
    /\ c \in calls
    /\ LET aged == AgeSteps(heap, c.sleep)
           done == execute_step_finish(aged[c.step], failed)
       IN  /\ heap' = [aged EXCEPT ![c.step] = done]
           /\ ret' = execute_step_result(done, failed)
    /\ calls' = AgeCalls(calls \ {c}, c.sleep)
    /\ executions' = AgeExecutions(executions, c.sleep)
    /\ UNCHANGED <<engine, plans, corrector, cache, awaiting>>

(***************************************************************************)
(* generate_plan called by a library caller, and the HTTP endpoints of     *)
(* main.py.  A plan remembers the execution it was generated for (0: none),*)
(* whether the reasoning service was unavailable, whether execute_step had *)
(* been called before, the text the service answered (none when it was not *)
(* asked or raised), and what was returned.                                *)
(***************************************************************************)
Snapshot(h, steps) == [i \in 1..Len(steps) |-> to_dict(h[steps[i]])]

PlanRecord(eng, h, g, input_type, outcome, execution) ==
    [input_type |-> input_type, steps |-> g.plan, execution |-> execution,
     unavailable |-> (eng.model = None \/ outcome.raises),
     executed_before |-> (TotalAttempts(h) > 0),
     answered |-> IF eng.model = None \/ outcome.raises THEN <<>> ELSE outcome.text,
     returned |-> Snapshot(g.heap, g.plan)]

GeneratePlan(input_type, outcome) ==
    /\ LET g == generate_plan(engine, heap, input_type, outcome)
       IN  /\ heap' = g.heap
           /\ plans' = Append(plans, PlanRecord(engine, heap, g, input_type, outcome, 0))
    /\ UNCHANGED <<engine, calls, executions, corrector, ret, cache, awaiting>>

\* generate_plan seen as the event loop runs it.  With a model set, the
\* coroutine hands generate_content to a worker thread and awaits it (lines
\* 125-128: no timeout is passed and none surrounds the await); the service
\* answers or raises when it pleases; the coroutine resumes with the outcome.
NoAnswer == [raises |-> TRUE, text |-> <<>>]

GeneratePlanCall(input_type) ==
    IF engine.model = None
    THEN /\ GeneratePlan(input_type, NoAnswer)
    ELSE /\ awaiting' = awaiting \cup
                {[id |-> Len(plans) + Cardinality(awaiting) + 1,
                  input_type |-> input_type, answered |-> FALSE,
                  answer |-> NoAnswer]}
         /\ UNCHANGED <<engine, heap, plans, calls, executions, corrector,
                        ret, cache>>

ServiceAnswers(c, outcome) ==
    /\ c \in awaiting
    /\ ~c.answered
    /\ awaiting' = (awaiting \ {c}) \cup
            {[c EXCEPT !.answered = TRUE, !.answer = outcome]}
    /\ UNCHANGED <<engine, heap, plans, calls, executions, corrector, ret, cache>>

GeneratePlanResume(c) ==
    /\ c \in awaiting
    /\ c.answered
    /\ LET g == generate_plan(engine, heap, c.input_type, c.answer)
       IN  /\ heap' = g.heap
           /\ plans' = Append(plans,
                           PlanRecord(engine, heap, g, c.input_type, c.answer, 0))
    /\ awaiting' = awaiting \ {c}
    /\ UNCHANGED <<engine, calls, executions, corrector, ret, cache>>

\* POST /api/v1/executions
create_execution(eng, h, es, input_type, outcome) ==
    LET g == generate_plan(eng, h, input_type, outcome)
    IN  [heap |-> g.heap,
         plan |-> PlanRecord(eng, h, g, input_type, outcome, Len(es) + 1),
         executions |-> Append(es,
             [status |-> "planned", plan |-> Snapshot(g.heap, g.plan),
              created_at |-> 0, error_message |-> None])]

\* GET /api/v1/executions/{execution_id}
\* every field of the answer is a literal; created_at is utcnow()
get_execution(e) ==
    [e EXCEPT !.status = "completed", !.plan = <<>>, !.created_at = 0]

GetExecution(id) ==
    /\ id \in DOMAIN executions
    /\ executions' = [executions EXCEPT ![id] = get_execution(@)]
    /\ UNCHANGED <<engine, heap, plans, calls, corrector, ret, cache, awaiting>>

\* Corrector.apply_correction: sleeps, touches no step, returns True
ApplyCorrection(s) ==
    /\ s \in PlanSteps
    /\ heap' = AgeSteps(heap, APPLY_SLEEP_TICKS)
    /\ calls' = AgeCalls(calls, APPLY_SLEEP_TICKS)
    /\ executions' = AgeExecutions(executions, APPLY_SLEEP_TICKS)
    /\ ret' = [op |-> "apply_correction", value |-> TRUE]
    /\ UNCHANGED <<engine, plans, corrector, cache, awaiting>>

(***************************************************************************)
(* Validator.validate_output.  An output is described by what the function *)
(* reads of it: its Python type, its len() and, for a string, its          *)
(* count(' ').  Scores are hundredths.                                     *)
(***************************************************************************)
MIN_OUTPUT_LENGTH == 10
MAX_OUTPUT_LENGTH == 100000
MIN_SPACES == 5
TYPE_PENALTY == 30
SHORT_PENALTY == 10
LARGE_PENALTY == 5
EMPTY_DICT_PENALTY == 50
EMPTY_LIST_PENALTY == 20
DETAIL_PENALTY == 10

Output(type, len, spaces) == [type |-> type, len |-> len, spaces |-> spaces]

Outputs ==
    {Output("NoneType", 0, 0), Output("int", 0, 0)}
        \cup {Output("str", n, k) :
                n \in {0, 4, 9, 10, 11, MAX_OUTPUT_LENGTH, MAX_OUTPUT_LENGTH + 1},
                k \in {0, 4, 5, 9}}
        \cup {Output(t, n, 0) : t \in {"dict", "list"}, n \in {0, 1}}

\* a string holds no more spaces than characters
WellFormed(output) == output.type = "str" => output.spaces <= output.len

ExpectedTypes == {"any", "string", "dict", "list", "mapping", "sequence"}

\* A type validation that goes on to compare the type of a None output.
TypeCheck_none_typed(output, expected_type) ==
    LET none == IF output.type = "NoneType" THEN <<"Output is None">> ELSE <<>>
        top == IF output.type = "NoneType" THEN 0 ELSE 100
    IN  IF expected_type # "any"
           /\ \/ expected_type = "string" /\ output.type # "str"
              \/ expected_type = "dict" /\ output.type # "dict"
              \/ expected_type = "list" /\ output.type # "list"
        THEN [errors |-> Append(none, "Expected " \o expected_type \o ", got "
                                          \o output.type),
              score |-> top - TYPE_PENALTY]
        ELSE [errors |-> none, score |-> top]

\* A type validation that knows the expected type "string" only.
TypeCheck_string_only(output, expected_type) ==
    IF output.type = "NoneType"
    THEN [errors |-> <<"Output is None">>, score |-> 0]
    ELSE IF expected_type = "string" /\ output.type # "str"
         THEN [errors |-> <<"Expected " \o expected_type \o ", got " \o output.type>>,
               score |-> 100 - TYPE_PENALTY]
         ELSE [errors |-> <<>>, score |-> 100]

\* A type validation that reports every expected type it does not know.
TypeCheck_strict(output, expected_type) ==
    IF output.type = "NoneType"
    THEN [errors |-> <<"Output is None">>, score |-> 0]
    ELSE IF expected_type # "any"
              /\ ~ \/ expected_type = "string" /\ output.type = "str"
                   \/ expected_type = "dict" /\ output.type = "dict"
                   \/ expected_type = "list" /\ output.type = "list"
         THEN [errors |-> <<"Expected " \o expected_type \o ", got " \o output.type>>,
               score |-> 100 - TYPE_PENALTY]
         ELSE [errors |-> <<>>, score |-> 100]

\* lines 36-51: the null check and the type validation
TypeCheck(output, expected_type) ==
    IF output.type = "NoneType"
    THEN [errors |-> <<"Output is None">>, score |-> 0]
    ELSE IF expected_type # "any"
              /\ \/ expected_type = "string" /\ output.type # "str"
                 \/ expected_type = "dict" /\ output.type # "dict"
                 \/ expected_type = "list" /\ output.type # "list"
         THEN [errors |-> <<"Expected " \o expected_type \o ", got " \o output.type>>,
               score |-> 100 - TYPE_PENALTY]
         ELSE [errors |-> <<>>, score |-> 100]

\* A content validation that charges an empty dict what an empty list costs.
ContentCheck_lenient_dict(output, r) ==
    CASE output.type = "str" /\ output.len < MIN_OUTPUT_LENGTH ->
           [r EXCEPT !.warnings = Append(@, "Output seems too short"),
                     !.score = @ - SHORT_PENALTY]
      [] output.type = "str" /\ output.len > MAX_OUTPUT_LENGTH ->
           [r EXCEPT !.warnings = Append(@, "Output is very large"),
                     !.score = @ - LARGE_PENALTY]
      [] output.type = "dict" /\ output.len = 0 ->
           [r EXCEPT !.errors = Append(@, "Output dictionary is empty"),
                     !.score = @ - EMPTY_LIST_PENALTY]
      [] output.type = "list" /\ output.len = 0 ->
           [r EXCEPT !.warnings = Append(@, "Output list is empty"),
                     !.score = @ - EMPTY_LIST_PENALTY]
      [] OTHER -> r

\* lines 53-69: the content validation
ContentCheck(output, r) ==
    CASE output.type = "str" /\ output.len < MIN_OUTPUT_LENGTH ->
           [r EXCEPT !.warnings = Append(@, "Output seems too short"),
                     !.score = @ - SHORT_PENALTY]
      [] output.type = "str" /\ output.len > MAX_OUTPUT_LENGTH ->
           [r EXCEPT !.warnings = Append(@, "Output is very large"),
                     !.score = @ - LARGE_PENALTY]
      [] output.type = "dict" /\ output.len = 0 ->
           [r EXCEPT !.errors = Append(@, "Output dictionary is empty"),
                     !.score = @ - EMPTY_DICT_PENALTY]
      [] output.type = "list" /\ output.len = 0 ->
           [r EXCEPT !.warnings = Append(@, "Output list is empty"),
                     !.score = @ - EMPTY_LIST_PENALTY]
      [] OTHER -> r

\* A quality check that lets a string already warned about go.
QualityCheck_unless_warned(output, r) ==
    IF output.type = "str" /\ output.spaces < MIN_SPACES /\ r.warnings = <<>>
    THEN [r EXCEPT !.warnings = Append(@, "Output may lack detail"),
                   !.score = @ - DETAIL_PENALTY]
    ELSE r

\* lines 72-76: the quality checks
QualityCheck(output, r) ==
    IF output.type = "str" /\ output.spaces < MIN_SPACES
    THEN [r EXCEPT !.warnings = Append(@, "Output may lack detail"),
                   !.score = @ - DETAIL_PENALTY]
    ELSE r

\* line 79: max(0.0, min(1.0, score))
Clamp(score) == Max(0, Min(100, score))

\* A validator that settles `valid` before the content validation runs.
validate_output_early_valid(step_name, output, expected_type) ==
    LET t == TypeCheck(output, expected_type)
        r == QualityCheck(output,
                 ContentCheck(output, [errors |-> t.errors, warnings |-> <<>>,
                                       score |-> t.score]))
    IN  [valid |-> Len(t.errors) = 0, errors |-> r.errors,
         warnings |-> r.warnings, score |-> Clamp(r.score)]

validate_output(step_name, output, expected_type) ==
    LET t == TypeCheck(output, expected_type)
        r == QualityCheck(output,
                 ContentCheck(output, [errors |-> t.errors, warnings |-> <<>>,
                                       score |-> t.score]))
    IN  [valid |-> Len(r.errors) = 0, errors |-> r.errors,
         warnings |-> r.warnings, score |-> Clamp(r.score)]

ValidateOutput(step_name, output, expected_type) ==
    /\ WellFormed(output)
    /\ ret' = [op |-> "validate_output", output |-> output,
               expected_type |-> expected_type,
               result |-> validate_output(step_name, output, expected_type)]
    /\ UNCHANGED <<engine, heap, plans, calls, executions, corrector, cache, awaiting>>

(***************************************************************************)
(* Corrector.  A Python float is a finite number of hundredths, nan, inf   *)
(* or -inf.  A response text is a sequence of lines; a line is the label   *)
(* it starts with ("" when it starts with none of the four) and the text   *)
(* after the first colon, stripped.                                        *)
(***************************************************************************)
DEFAULT_CONFIDENCE == 70
FALLBACK_CONFIDENCE == 75
RETRY_DELAY_MS == 500

Num(v) == [kind |-> "num", v |-> v]
NaN == [kind |-> "nan", v |-> 0]
PosInf == [kind |-> "inf", v |-> 1]
NegInf == [kind |-> "inf", v |-> -1]

\* a < b on floats: every comparison with nan is false
Less(a, b) ==
    CASE a.kind = "nan" \/ b.kind = "nan" -> FALSE
      [] a.kind = "num" /\ b.kind = "num" -> a.v < b.v
      [] a.kind = "inf" /\ b.kind = "inf" -> a.v < b.v
      [] a.kind = "inf" -> a.v < 0
      [] OTHER -> b.v > 0

\* the builtins min(a, b) and max(a, b): b wins only when it compares so
PyMin(a, b) == IF Less(b, a) THEN b ELSE a
PyMax(a, b) == IF Less(a, b) THEN b ELSE a

\* float(text): [ok |-> FALSE] stands for ValueError
Float(text) ==
    CASE text = "0.5" -> [ok |-> TRUE, value |-> Num(50)]
      [] text = "1.5" -> [ok |-> TRUE, value |-> Num(150)]
      [] text = "-0.5" -> [ok |-> TRUE, value |-> Num(-50)]
      [] text = "nan" -> [ok |-> TRUE, value |-> NaN]
      [] text = "inf" -> [ok |-> TRUE, value |-> PosInf]
      [] text = "-inf" -> [ok |-> TRUE, value |-> NegInf]
      [] OTHER -> [ok |-> FALSE, value |-> NaN]

ConfidenceTexts ==
    {"0.5", "1.5", "-0.5", "nan", "inf", "-inf", "high"}

Line(label, text) == [label |-> label, text |-> text]

CorrectorLines ==
    {Line("", "I could not analyze this"),
     Line("ROOT CAUSE:", "The parser met a scanned page"),
     Line("STRATEGY:", "Run OCR first"),
     Line("ACTION:", "Enable OCR")}
        \cup {Line("CONFIDENCE:", t) : t \in ConfidenceTexts}

NoParameters ==
    [keys |-> {}, tolerance |-> None, retry_delay_ms |-> 0]
FallbackParameters ==
    [keys |-> {"tolerance", "retry_delay_ms"}, tolerance |-> "increased",
     retry_delay_ms |-> RETRY_DELAY_MS]

\* lines 101-107: the defaults of the external path
GeminiDefaults ==
    [root_cause |-> "Unknown", strategy |-> "Retry with adjustments",
     action |-> "Reformatting and retrying", confidence |-> Num(DEFAULT_CONFIDENCE),
     adjusted_parameters |-> NoParameters]

\* A clamp that forgets the lower end.
ClampConfidence_upper_only(conf) == PyMin(Num(100), conf)

\* line 119: the clamp of a parsed confidence
ClampConfidence(conf) == PyMax(Num(0), PyMin(Num(100), conf))

\* A parser that starts over when a confidence does not parse.
ParseField_reset_on_error(result, line) ==
    CASE line.label = "ROOT CAUSE:" -> [result EXCEPT !.root_cause = line.text]
      [] line.label = "STRATEGY:" -> [result EXCEPT !.strategy = line.text]
      [] line.label = "ACTION:" -> [result EXCEPT !.action = line.text]
      [] line.label = "CONFIDENCE:" ->
           IF Float(line.text).ok
           THEN [result EXCEPT !.confidence = ClampConfidence(Float(line.text).value)]
           ELSE GeminiDefaults
      [] OTHER -> result

\* lines 109-121: one line of the response
ParseField(result, line) ==
    CASE line.label = "ROOT CAUSE:" -> [result EXCEPT !.root_cause = line.text]
      [] line.label = "STRATEGY:" -> [result EXCEPT !.strategy = line.text]
      [] line.label = "ACTION:" -> [result EXCEPT !.action = line.text]
      [] line.label = "CONFIDENCE:" ->
           IF Float(line.text).ok
           THEN [result EXCEPT !.confidence = ClampConfidence(Float(line.text).value)]
           ELSE result
      [] OTHER -> result

RECURSIVE ParseFields(_, _)
ParseFields(result, lines) ==
    IF lines = <<>> THEN result
    ELSE ParseFields(ParseField(result, Head(lines)), Tail(lines))

_analyze_with_gemini(text) == ParseFields(GeminiDefaults, text)

\* An error text is the sequence of its words; error.lower() lowers each.
Lower(word) ==
    CASE word = "Format" -> "format"
      [] word = "TIMEOUT" -> "timeout"
      [] word = "Incomplete" -> "incomplete"
      [] OTHER -> word

Contains(error, keyword) == \E i \in DOMAIN error : Lower(error[i]) = keyword

ErrorWords == {"Validation failed", "Format", "incomplete", "TIMEOUT"}

\* A fallback that looks for the keywords in the error text as it is
\* written, without lowering it first.
_get_default_correction_case_sensitive(error) ==
    LET pair ==
          CASE (\E i \in DOMAIN error : error[i] = "format") ->
                 <<"Adjust output format and retry",
                   "Relaxing format constraints and reformatting output">>
            [] (\E i \in DOMAIN error : error[i] = "incomplete") ->
                 <<"Increase processing depth",
                   "Processing with more detail and thoroughness">>
            [] (\E i \in DOMAIN error : error[i] = "timeout") ->
                 <<"Optimize for speed",
                   "Reducing scope and optimizing execution path">>
            [] OTHER ->
                 <<"Retry with adjusted parameters",
                   "Reformatting output structure and relaxing constraints">>
    IN  [root_cause |-> "Likely validation criteria mismatch or data quality issue",
         strategy |-> pair[1], action |-> pair[2],
         confidence |-> Num(FALLBACK_CONFIDENCE),
         adjusted_parameters |-> FallbackParameters]

\* lines 126-152
_get_default_correction(error) ==
    LET pair ==
          CASE Contains(error, "format") ->
                 <<"Adjust output format and retry",
                   "Relaxing format constraints and reformatting output">>
            [] Contains(error, "incomplete") ->
                 <<"Increase processing depth",
                   "Processing with more detail and thoroughness">>
            [] Contains(error, "timeout") ->
                 <<"Optimize for speed",
                   "Reducing scope and optimizing execution path">>
            [] OTHER ->
                 <<"Retry with adjusted parameters",
                   "Reformatting output structure and relaxing constraints">>
    IN  [root_cause |-> "Likely validation criteria mismatch or data quality issue",
         strategy |-> pair[1], action |-> pair[2],
         confidence |-> Num(FALLBACK_CONFIDENCE),
         adjusted_parameters |-> FallbackParameters]

\* Corrector.__init__: nothing catches what configure or GenerativeModel raise
Corrector_init(GEMINI_AVAILABLE, GEMINI_API_KEY, configure_raises) ==
    IF GEMINI_AVAILABLE /\ GEMINI_API_KEY
    THEN IF configure_raises
         THEN [constructed |-> FALSE, model |-> None, raised |-> TRUE]
         ELSE [constructed |-> TRUE, model |-> "GenerativeModel", raised |-> FALSE]
    ELSE [constructed |-> TRUE, model |-> None, raised |-> FALSE]

\* lines 34-62
analyze_failure(cor, step_name, error, outcome) ==
    IF cor.model # None /\ ~outcome.raises
    THEN _analyze_with_gemini(outcome.text)
    ELSE _get_default_correction(error)

CorrectorOutcomes ==
    {[raises |-> TRUE, text |-> <<>>]}
        \cup {[raises |-> FALSE, text |-> t] : t \in SeqsUpTo(CorrectorLines, MaxFields)}

Errors == SeqsUpTo(ErrorWords, MaxWords)

ConstructCorrector(a, k, r) ==
    /\ ~corrector.constructed /\ ~corrector.raised
    /\ corrector' = Corrector_init(a, k, r)
    /\ UNCHANGED <<engine, heap, plans, calls, executions, ret, cache, awaiting>>

AnalyzeFailure(step_name, error, outcome) ==
    /\ corrector.constructed
    /\ ret' = [op |-> "analyze_failure", error |-> error,
               external |-> (corrector.model # None /\ ~outcome.raises),
               text |-> outcome.text,
               result |-> analyze_failure(corrector, step_name, error, outcome)]
    /\ UNCHANGED <<engine, heap, plans, calls, executions, corrector, cache, awaiting>>

(***************************************************************************)
(* RedisClient.  The instance holds redis (modelled by whether it is set), *)
(* available and _in_memory_cache; server is the content of the Redis      *)
(* server behind it.  Each call that goes to Redis either succeeds or      *)
(* raises, as the network decides; a call that raises leaves the server    *)
(* unchanged.  written is a history field: per key, the value of the last  *)
(* set that returned a truthy value, Deleted after a delete that returned  *)
(* true, and Unknown otherwise.                                            *)
(***************************************************************************)
Keys == {"k1", "k2"}
Values == {"v1"}
Deleted == "deleted"
Unknown == "unknown"

RedisClient_init ==
    [redis            |-> FALSE,
     available        |-> FALSE,
     _in_memory_cache |-> [k \in Keys |-> None],
     server           |-> [k \in Keys |-> None],
     written          |-> [k \in Keys |-> Unknown]]

\* `if self.redis and self.available:` followed by a call that does not raise.
ViaRedis(c, raises) == c.redis /\ c.available /\ ~raises

RedisClient_connect(c, ok) ==
    IF ok THEN [c EXCEPT !.redis = TRUE, !.available = TRUE]
          ELSE [c EXCEPT !.redis = FALSE, !.available = FALSE]

RedisClient_set(c, key, value, raises) ==
    IF ViaRedis(c, raises)
    THEN [cache |-> [c EXCEPT !.server[key] = value], value |-> TRUE]
    ELSE [cache |-> [c EXCEPT !._in_memory_cache[key] = value],
          value |-> TRUE]

RedisClient_get(c, key, raises) ==
    IF ViaRedis(c, raises) THEN c.server[key] ELSE c._in_memory_cache[key]

RedisClient_delete(c, key, raises) ==
    IF ViaRedis(c, raises)
    THEN [cache |-> [c EXCEPT !.server[key] = None],
          value |-> c.server[key] # None]
    ELSE [cache |-> [c EXCEPT !._in_memory_cache[key] = None],
          value |-> c._in_memory_cache[key] # None]

RedisClient_exists(c, key, raises) ==
    IF ViaRedis(c, raises) THEN c.server[key] # None
                           ELSE c._in_memory_cache[key] # None

CacheConnect(ok) ==
    /\ cache' = RedisClient_connect(cache, ok)
    /\ UNCHANGED <<engine, heap, plans, calls, executions, corrector, ret, awaiting>>

CacheSet(key, value, raises) ==
    LET r == RedisClient_set(cache, key, value, raises)
    IN  /\ cache' = [r.cache EXCEPT
                        !.written[key] = IF r.value THEN value ELSE Unknown]
        /\ ret' = [op |-> "set", key |-> key, value |-> r.value]
        /\ UNCHANGED <<engine, heap, plans, calls, executions, corrector, awaiting>>

CacheGet(key, raises) ==
    /\ ret' = [op |-> "get", key |-> key,
               value |-> RedisClient_get(cache, key, raises),
               written |-> cache.written[key]]
    /\ UNCHANGED <<engine, heap, plans, calls, executions, corrector, cache, awaiting>>

CacheDelete(key, raises) ==
    LET r == RedisClient_delete(cache, key, raises)
    IN  /\ cache' = [r.cache EXCEPT
                        !.written[key] = IF r.value THEN Deleted ELSE Unknown]
        /\ ret' = [op |-> "delete", key |-> key, value |-> r.value]
        /\ UNCHANGED <<engine, heap, plans, calls, executions, corrector, awaiting>>

CacheExists(key, raises) ==
    /\ ret' = [op |-> "exists", key |-> key,
               value |-> RedisClient_exists(cache, key, raises),
               written |-> cache.written[key]]
    /\ UNCHANGED <<engine, heap, plans, calls, executions, corrector, cache, awaiting>>

NoCorrector == [constructed |-> FALSE, model |-> None, raised |-> FALSE]
NoReturn == [op |-> "none"]

Engines == {OrchestratorEngine_init(a, k, r) : a, k, r \in BOOLEAN}

(***************************************************************************)
(* Spec: the engine and the endpoints under concurrent callers.            *)
(***************************************************************************)
Init ==
    /\ engine \in Engines
    /\ heap = <<>>
    /\ plans = <<>>
    /\ calls = {}
    /\ executions = <<>>
    /\ corrector = NoCorrector
    /\ ret = NoReturn
    /\ cache = RedisClient_init
    /\ awaiting = {}

Next ==
    \/ \E t \in InputTypes, o \in SampleOutcomes :
          Len(plans) < MaxPlans /\ GeneratePlan(t, o)
    \/ \E s \in DOMAIN heap :
          TotalAttempts(heap) < MaxCalls /\ ExecuteStepBegin(s)
    \/ \E c \in calls, failed \in BOOLEAN : ExecuteStepEnd(c, failed)

Spec == Init /\ [][Next]_vars

(***************************************************************************)
(* SpecRun: one execution, from its creation on, driven by one caller that *)
(* awaits each call before it makes the next.                              *)
(***************************************************************************)
InitRun ==
    /\ engine \in Engines
    /\ \E t \in RunInputTypes, o \in SampleOutcomes :
          LET r == create_execution(engine, <<>>, <<>>, t, o)
          IN  /\ heap = r.heap
              /\ plans = <<r.plan>>
              /\ executions = r.executions
    /\ calls = {}
    /\ corrector = NoCorrector
    /\ ret = NoReturn
    /\ cache = RedisClient_init
    /\ awaiting = {}

NextRun ==
    \/ \E id \in DOMAIN executions : calls = {} /\ GetExecution(id)
    \/ \E s \in DOMAIN heap :
          calls = {} /\ TotalAttempts(heap) < MaxRunCalls /\ ExecuteStepBegin(s)
    \/ \E c \in calls, failed \in BOOLEAN : ExecuteStepEnd(c, failed)
    \/ \E s \in DOMAIN heap : calls = {} /\ ApplyCorrection(s)

SpecRun == InitRun /\ [][NextRun]_vars

(***************************************************************************)
(* SpecExec: the steps of one plan executed by callers that do not wait    *)
(* for one another.                                                        *)
(***************************************************************************)
InitExec ==
    /\ engine \in Engines
    /\ \E t \in RunInputTypes, o \in SampleOutcomes :
          LET g == generate_plan(engine, <<>>, t, o)
          IN  /\ heap = g.heap
              /\ plans = <<PlanRecord(engine, <<>>, g, t, o, 0)>>
    /\ calls = {}
    /\ executions = <<>>
    /\ corrector = NoCorrector
    /\ ret = NoReturn
    /\ cache = RedisClient_init
    /\ awaiting = {}

NextExec ==
    \/ \E s \in DOMAIN heap :
          TotalAttempts(heap) < MaxExecCalls /\ ExecuteStepBegin(s)
    \/ \E c \in calls, failed \in BOOLEAN : ExecuteStepEnd(c, failed)

SpecExec == InitExec /\ [][NextExec]_vars

(***************************************************************************)
(* SpecValidate: the validator applied to every output and expected type.  *)
(***************************************************************************)
InitPure ==
    /\ engine \in Engines
    /\ heap = <<>>
    /\ plans = <<>>
    /\ calls = {}
    /\ executions = <<>>
    /\ corrector = NoCorrector
    /\ ret = NoReturn
    /\ cache = RedisClient_init
    /\ awaiting = {}

\* The function keeps no state: one call a behaviour shows all it can do.
NextValidate ==
    /\ ret = NoReturn
    /\ \E o \in Outputs, t \in ExpectedTypes : ValidateOutput("step", o, t)

SpecValidate == InitPure /\ [][NextValidate]_vars

(***************************************************************************)
(* SpecCorrect: a Corrector is constructed and asked for diagnoses.        *)
(***************************************************************************)
NextCorrect ==
    \/ \E a, k, r \in BOOLEAN : ConstructCorrector(a, k, r)
    \/ /\ ret = NoReturn
       /\ \E e \in Errors, o \in CorrectorOutcomes : AnalyzeFailure("step", e, o)

SpecCorrect == InitPure /\ [][NextCorrect]_vars

(***************************************************************************)
(* SpecPlan: generate_plan called once, on every input type and every      *)
(* answer of the reasoning service.                                        *)
(***************************************************************************)
NextPlan ==
    /\ plans = <<>>
    /\ \E t \in InputTypes, o \in GeminiOutcomes : GeneratePlan(t, o)

SpecPlan == InitPure /\ [][NextPlan]_vars

(***************************************************************************)
(* SpecCache: one RedisClient used by a caller that awaits each call,      *)
(* while Redis comes and goes.                                             *)
(***************************************************************************)
NextCache ==
    \/ \E ok \in BOOLEAN : CacheConnect(ok)
    \/ \E k \in Keys, v \in Values, raises \in BOOLEAN : CacheSet(k, v, raises)
    \/ \E k \in Keys, raises \in BOOLEAN : CacheGet(k, raises)
    \/ \E k \in Keys, raises \in BOOLEAN : CacheDelete(k, raises)
    \/ \E k \in Keys, raises \in BOOLEAN : CacheExists(k, raises)

SpecCache == InitPure /\ [][NextCache]_vars

(***************************************************************************)
(* SpecAwait: generate_plan called while the reasoning service answers,    *)
(* raises or stays silent.  The event loop resumes a coroutine whose       *)
(* awaited call has finished; nothing obliges the service to finish it.    *)
(***************************************************************************)
NextAwait ==
    \/ \E t \in InputTypes :
          Len(plans) + Cardinality(awaiting) < MaxPlans /\ GeneratePlanCall(t)
    \/ \E c \in awaiting, o \in SampleOutcomes : ServiceAnswers(c, o)
    \/ \E c \in awaiting : GeneratePlanResume(c)

SpecAwait ==
    /\ InitPure
    /\ [][NextAwait]_vars
    /\ WF_vars(\E c \in awaiting : GeneratePlanResume(c))

(***************************************************************************)
(* Properties of step execution and of the execution lifecycle (SpecRun).  *)
(***************************************************************************)
\* The execution a step was planned for (0 when its plan has none).
ExecutionOf(s) ==
    LET owners == {p \in DOMAIN plans : s \in Range(plans[p].steps)}
    IN  IF owners = {} THEN 0 ELSE plans[CHOOSE p \in owners : TRUE].execution

\* C1: no step is ever attempted more than MAX_RETRIES_PER_STEP + 1 times,
\* and a step is failed only once its attempts have reached that number.
C1_AttemptsWithinBudget ==
    \A s \in DOMAIN heap :
        /\ heap[s].attempts <= MAX_RETRIES_PER_STEP + 1
        /\ heap[s].status = "failed" =>
               heap[s].attempts = MAX_RETRIES_PER_STEP + 1

\* C2: the steps of a plan run in declared order: a step that has been
\* started (its status is not pending) has all its predecessors completed.
C2_StrictOrder ==
    \A p \in DOMAIN plans :
        \A i \in DOMAIN plans[p].steps :
            heap[plans[p].steps[i]].status # "pending" =>
                \A j \in 1..(i - 1) :
                    heap[plans[p].steps[j]].status = "completed"

\* C3: an execution is planned, running, completed, failed or timed_out; it
\* is completed only if every step of its plan is completed, and it is
\* failed whenever a step of its plan is failed.
C3_StatusFollowsSteps ==
    \A p \in DOMAIN plans :
        LET e == plans[p].execution
            steps == plans[p].steps
        IN  e # 0 =>
              /\ executions[e].status \in
                     {"planned", "running", "completed", "failed", "timed_out"}
              /\ executions[e].status = "completed" =>
                     \A i \in DOMAIN steps : heap[steps[i]].status = "completed"
              /\ (\E i \in DOMAIN steps : heap[steps[i]].status = "failed") =>
                     executions[e].status = "failed"

\* C4: once a step has used its whole budget (MAX_RETRIES_PER_STEP + 1
\* attempts, the last one failed), the step and its execution are failed and
\* the execution carries an error message.
C4_ExhaustionFailsExecution ==
    \A s \in DOMAIN heap :
        (/\ ExecutionOf(s) # 0
         /\ heap[s].attempts = MAX_RETRIES_PER_STEP + 1
         /\ heap[s].status = "failed") =>
            /\ executions[ExecutionOf(s)].status = "failed"
            /\ executions[ExecutionOf(s)].error_message # None

\* C5: when a call of execute_step returns later than a configured deadline
\* after the creation of its execution, the execution is timed_out.
C5_DeadlineTimesOut ==
    \A e \in DOMAIN executions, d \in ConfiguredDeadlines :
        (/\ ret.op = "execute_step"
         /\ executions[e].created_at > d * TicksPerSecond) =>
            executions[e].status = "timed_out"

(***************************************************************************)
(* Properties of the components taken one at a time.                       *)
(***************************************************************************)
\* C6: the absence or a failure of the reasoning service never reaches the
\* caller: neither constructor raises, and a diagnosis made without the
\* service is the fallback correction of the error.
C6_ServiceFailureContained ==
    /\ ~engine.raised
    /\ ~corrector.raised
    /\ (ret.op = "analyze_failure" /\ ~ret.external) =>
           ret.result = _get_default_correction(ret.error)

\* C7: every result of validate_output has a score between 0 and 1 and is
\* valid exactly when it lists no error.
C7_ScoreAndValidity ==
    ret.op = "validate_output" =>
        /\ 0 <= ret.result.score /\ ret.result.score <= 100
        /\ ret.result.valid <=> (ret.result.errors = <<>>)

\* An empty dict was validated against "any": the type validation passes and
\* the content validation reports the error.
C7_EmptyDictRejected ==
    /\ ret.op = "validate_output"
    /\ ret.expected_type = "any"
    /\ ret.output.type = "dict"
    /\ ret.result.errors = <<"Output dictionary is empty">>
    /\ ~ret.result.valid
    /\ ret.result.score = 100 - EMPTY_DICT_PENALTY

\* C8: every diagnosis, parsed from the service's answer or taken from the
\* fallback, has a confidence that is a number between 0 and 1.
C8_ConfidenceInRange ==
    ret.op = "analyze_failure" =>
        /\ ret.result.confidence.kind = "num"
        /\ 0 <= ret.result.confidence.v /\ ret.result.confidence.v <= 100

\* The service answered with a negative confidence and the diagnosis
\* carries 0.
C8_NegativeConfidenceClamped ==
    /\ ret.op = "analyze_failure"
    /\ ret.external
    /\ Len(ret.text) > 0
    /\ ret.text[Len(ret.text)] = Line("CONFIDENCE:", "-0.5")
    /\ ret.result.confidence = Num(0)

\* C9: with the reasoning service unavailable, two calls of generate_plan
\* with the same input type return the same ids, names, descriptions,
\* statuses and attempts, whatever happened between them.
C9_FallbackDeterministic ==
    \A p, q \in DOMAIN plans :
        (/\ plans[p].unavailable /\ plans[q].unavailable
         /\ plans[p].input_type = plans[q].input_type) =>
            plans[p].returned = plans[q].returned

\* Two fallback plans of one input type, a step of the first having been
\* started before the second was generated.
C9_SecondPlanAfterExecution ==
    \E p, q \in DOMAIN plans :
        /\ p < q
        /\ plans[p].unavailable /\ plans[q].unavailable
        /\ plans[p].input_type = plans[q].input_type
        /\ plans[q].executed_before
        /\ \E i \in DOMAIN plans[p].steps : heap[plans[p].steps[i]].attempts > 0

\* C10: with the reasoning service unavailable, the plan for "pdf" has
\* exactly the four steps Extract document structure, Analyze content,
\* Generate summary, Validate output, in this order.
C10_PdfFallbackPlan ==
    \A p \in DOMAIN plans :
        (plans[p].unavailable /\ plans[p].input_type = "pdf") =>
            [i \in DOMAIN plans[p].returned |-> plans[p].returned[i].name] =
                <<"Extract document structure", "Analyze content",
                  "Generate summary", "Validate output">>

\* A fallback plan for "pdf" was returned after the service raised.
C10_PdfPlanReturned ==
    \E p \in DOMAIN plans :
        /\ plans[p].input_type = "pdf"
        /\ plans[p].unavailable
        /\ engine.model # None
        /\ Len(plans[p].returned) = Len(PdfPlan)

(***************************************************************************)
(* Further properties of the fallback catalog and of the validator.        *)
(***************************************************************************)
KnownKinds == {"pdf", "code", "url", "youtube"}

\* C11: with the reasoning service unavailable, generate_plan answers an
\* input type the catalog does not know with the plan it answers for "pdf".
C11_UnknownKindGetsPdfPlan ==
    \A p \in DOMAIN plans :
        (plans[p].unavailable /\ plans[p].input_type \notin KnownKinds) =>
            plans[p].returned = [i \in DOMAIN PdfPlan |-> to_dict(PdfPlan[i])]

\* A fallback plan was returned for "docx".
C11_DocxPlanReturned ==
    \E p \in DOMAIN plans :
        /\ plans[p].input_type = "docx"
        /\ plans[p].unavailable
        /\ Len(plans[p].steps) = Len(PdfPlan)
        /\ heap[plans[p].steps[1]].name = "Extract document structure"

\* C12: an empty dict validated against the expected type "mapping" is not
\* valid, scores 0.5 and carries the one error "Output dictionary is empty"
\* and no warning.
C12_EmptyMapping ==
    (/\ ret.op = "validate_output"
     /\ ret.output = Output("dict", 0, 0)
     /\ ret.expected_type = "mapping") =>
        ret.result = [valid |-> FALSE,
                      errors |-> <<"Output dictionary is empty">>,
                      warnings |-> <<>>, score |-> 50]

\* The empty dict has been validated against "mapping".
C12_EmptyMappingValidated ==
    /\ ret.op = "validate_output"
    /\ ret.output.type = "dict" /\ ret.output.len = 0
    /\ ret.expected_type = "mapping"
    /\ Len(ret.result.errors) = 1

(***************************************************************************)
(* Further properties of the corrector.                                    *)
(***************************************************************************)
\* C14: a diagnosis made without the reasoning service has confidence 0.75
\* and the parameters tolerance "increased", retry_delay_ms 500, and its
\* strategy and action are those of the first of format, incomplete,
\* timeout that the error text holds in any case, else the default pair.
C14_FallbackClassification ==
    (ret.op = "analyze_failure" /\ ~ret.external) =>
        LET has(k) == \E i \in DOMAIN ret.error :
                          ret.error[i] \in {k, IF k = "format" THEN "Format"
                                               ELSE IF k = "timeout" THEN "TIMEOUT"
                                               ELSE "Incomplete"}
            r == ret.result
        IN  /\ r.confidence = [kind |-> "num", v |-> 75]
            /\ r.adjusted_parameters =
                   [keys |-> {"tolerance", "retry_delay_ms"},
                    tolerance |-> "increased", retry_delay_ms |-> 500]
            /\ IF has("format")
               THEN /\ r.strategy = "Adjust output format and retry"
                    /\ r.action = "Relaxing format constraints and reformatting output"
               ELSE IF has("incomplete")
               THEN /\ r.strategy = "Increase processing depth"
                    /\ r.action = "Processing with more detail and thoroughness"
               ELSE IF has("timeout")
               THEN /\ r.strategy = "Optimize for speed"
                    /\ r.action = "Reducing scope and optimizing execution path"
               ELSE /\ r.strategy = "Retry with adjusted parameters"
                    /\ r.action = "Reformatting output structure and relaxing constraints"

\* An error text holding TIMEOUT before Format was diagnosed without the
\* service and got the action of format.
C14_FormatBeatsTimeout ==
    /\ ret.op = "analyze_failure"
    /\ ~ret.external
    /\ ret.error = <<"TIMEOUT", "Format">>
    /\ ret.result.action = "Relaxing format constraints and reformatting output"

\* C18: every diagnosis the corrector returns, parsed or fallback, carries
\* a retry_delay_ms among its adjusted parameters.
C18_RetryDelaySupplied ==
    ret.op = "analyze_failure" =>
        "retry_delay_ms" \in ret.result.adjusted_parameters.keys

(***************************************************************************)
(* Further properties of execute_step.                                     *)
(***************************************************************************)
\* C15: execute_step only reports an outcome: when it returns, with success
\* or with failure, the status of the step is still executing.
C15_ExecutorLeavesStatus ==
    ret.op = "execute_step" => ret.step.status = "executing"

\* C16: a call of execute_step, whatever the status of its step, adds one
\* to the attempts of the step, sets its status to executing and its
\* started_at on entry, sets its completed_at and duration when it returns,
\* and changes no other step.
C16_ExecuteEffects ==
    [][/\ Cardinality(calls') > Cardinality(calls) =>
            \E s \in DOMAIN heap :
                /\ heap'[s].attempts = heap[s].attempts + 1
                /\ heap'[s].status = "executing"
                /\ heap'[s].started_at = 0
                /\ \A t \in DOMAIN heap \ {s} : heap'[t] = heap[t]
       /\ Cardinality(calls') < Cardinality(calls) =>
            \E c \in calls :
                /\ heap'[c.step].attempts = heap[c.step].attempts
                /\ heap'[c.step].started_at # NoTime
                /\ heap'[c.step].completed_at = 0
                /\ heap'[c.step].duration_ms = heap'[c.step].started_at * TICK_MS
                /\ \A t \in DOMAIN heap \ {c.step} :
                       /\ to_dict(heap'[t]) = to_dict(heap[t])
                       /\ (heap'[t].started_at = NoTime) <=> (heap[t].started_at = NoTime)
                       /\ (heap'[t].completed_at = NoTime) <=> (heap[t].completed_at = NoTime)
      ]_vars

\* A step that had completed has been entered again while another step was
\* executing: it is on its second attempt, with the output of the first.
C16_CompletedStepReentered ==
    \E s \in DOMAIN heap :
        /\ heap[s].attempts = 2
        /\ heap[s].status = "executing"
        /\ heap[s].output # None
        /\ heap[s].started_at = 0
        /\ \E c \in calls : c.step # s

C19_PlanSize ==
    \A p \in DOMAIN plans :
        LET plan == plans[p].returned
            text == plans[p].answered
            parseable == {i \in DOMAIN text : ":" \in Range(text[i])}
            kth(k) == CHOOSE i \in parseable :
                          Cardinality({j \in parseable : j < i}) = k - 1
        IN  /\ Len(plan) >= 1
            /\ Len(plan) <= 6
            /\ parseable = {} =>
                   plan = [i \in DOMAIN DefaultCatalog(plans[p].input_type) |->
                              to_dict(DefaultCatalog(plans[p].input_type)[i])]
            /\ Cardinality(parseable) > 6 =>
                   /\ Len(plan) = 6
                   /\ \A k \in 1..6 :
                          plan[k].name = ParseLine(0, text[kth(k)]).name

\* The service answered seven lines holding a colon and the plan has six
\* steps.
C19_SeventhLineCut ==
    \E p \in DOMAIN plans :
        /\ Len(plans[p].answered) = 7
        /\ \A i \in 1..7 : ":" \in Range(plans[p].answered[i])
        /\ Len(plans[p].returned) = 6

\* C20: in every plan returned, the k-th step has id k.
C20_IdsArePositions ==
    \A p \in DOMAIN plans :
        \A k \in DOMAIN plans[p].returned : plans[p].returned[k].id = k

(***************************************************************************)
(* Properties of the step record over repeated calls of execute_step.      *)
(***************************************************************************)
\* C21: a step becomes failed only with more than MAX_RETRIES_PER_STEP
\* attempts, and once it is failed no operation changes its status or its
\* attempts.
C21_FailedIsTerminal ==
    [][\A s \in DOMAIN heap :
          /\ heap'[s].status = "failed" =>
                 heap'[s].attempts > MAX_RETRIES_PER_STEP
          /\ heap[s].status = "failed" =>
                 /\ heap'[s].status = "failed"
                 /\ heap'[s].attempts = heap[s].attempts
      ]_vars

\* C28: a completed step carries no error, and a failed step carries no
\* output of an earlier attempt.
C28_ResultMatchesStatus ==
    \A s \in DOMAIN heap :
        /\ heap[s].status = "completed" => heap[s].error = None
        /\ heap[s].status = "failed" => heap[s].output = None


\* C26: in a diagnosis parsed from the service's answer, each of root_cause,
\* strategy and action is the text of the last line with its label, or its
\* default ("Unknown", "Retry with adjustments", "Reformatting and
\* retrying") when no line has the label, whatever the other lines are; and
\* when no CONFIDENCE line holds a number the confidence is 0.7.
C26_FieldsParsedIndependently ==
    (ret.op = "analyze_failure" /\ ret.external) =>
        LET Has(l) == \E i \in DOMAIN ret.text : ret.text[i].label = l
            Last(l) ==
                ret.text[CHOOSE i \in DOMAIN ret.text :
                            /\ ret.text[i].label = l
                            /\ \A j \in DOMAIN ret.text :
                                  j > i => ret.text[j].label # l].text
        IN  /\ ret.result.root_cause =
                   IF Has("ROOT CAUSE:") THEN Last("ROOT CAUSE:") ELSE "Unknown"
            /\ ret.result.strategy =
                   IF Has("STRATEGY:") THEN Last("STRATEGY:")
                   ELSE "Retry with adjustments"
            /\ ret.result.action =
                   IF Has("ACTION:") THEN Last("ACTION:")
                   ELSE "Reformatting and retrying"
            /\ (\A i \in DOMAIN ret.text :
                   ret.text[i].label = "CONFIDENCE:" => ~Float(ret.text[i].text).ok)
                   => ret.result.confidence = Num(DEFAULT_CONFIDENCE)

\* The service named a root cause and then a confidence that is no number.
C26_RootCauseKeptConfidenceDefault ==
    /\ ret.op = "analyze_failure" /\ ret.external
    /\ ret.text = <<Line("ROOT CAUSE:", "The parser met a scanned page"),
                    Line("CONFIDENCE:", "high")>>
    /\ ret.result.root_cause = "The parser met a scanned page"
    /\ ret.result.strategy = "Retry with adjustments"

(***************************************************************************)
(* Properties of the cache wrapper (SpecCache).                            *)
(***************************************************************************)
\* C30: after set(key, v) returned a truthy value, with no later set or
\* delete of the key, get(key) returns v; and after delete(key) returned
\* true, exists(key) is false and get(key) returns None, whatever Redis
\* calls succeeded or raised in between.
C30_ReadYourWrites ==
    /\ (ret.op = "get" /\ ret.written \in Values) => ret.value = ret.written
    /\ (ret.op = "get" /\ ret.written = Deleted) => ret.value = None
    /\ (ret.op = "exists" /\ ret.written = Deleted) => ret.value = FALSE


\* C25: when apply_correction returns true it has changed the step it was
\* given, so that the next execute_step finds the adjusted parameters.
C25_CorrectionReachesStep ==
    [][\A s \in DOMAIN heap :
          (ApplyCorrection(s) /\ ret'.value = TRUE) =>
              heap'[s] # AgeSteps(heap, APPLY_SLEEP_TICKS)[s]
      ]_vars

(***************************************************************************)
(* Termination of generate_plan (SpecAwait).                               *)
(***************************************************************************)
\* C27: every call of generate_plan eventually returns a plan, even when
\* the reasoning service never answers.
C27_GeneratePlanReturns ==
    \A n \in 1..MaxPlans :
        (\E c \in awaiting : c.id = n) ~> ~(\E c \in awaiting : c.id = n)

(***************************************************************************)
(* Further properties of the validator (SpecValidate).                     *)
(***************************************************************************)
\* C22 as stated: a None output is not valid, scores 0 and carries the one
\* error "Output is absent", whatever the expected type.
C22_AbsentOutput ==
    (ret.op = "validate_output" /\ ret.output.type = "NoneType") =>
        /\ ret.result.valid = FALSE
        /\ ret.result.score = 0
        /\ ret.result.errors = <<"Output is absent">>

\* C22: a None output is not valid, scores 0 and carries the one error
\* "Output is None", whatever the expected type.
C22_NoneOutput ==
    (ret.op = "validate_output" /\ ret.output.type = "NoneType") =>
        /\ ret.result.valid = FALSE
        /\ ret.result.score = 0
        /\ ret.result.errors = <<"Output is None">>

\* None has been validated against an expected type it does not have.
C22_NoneValidated ==
    /\ ret.op = "validate_output"
    /\ ret.output.type = "NoneType"
    /\ ret.expected_type = "dict"
    /\ Len(ret.result.errors) = 1

\* C23 as stated: for the expected types string, mapping and sequence, an
\* output other than None of another type gets a type error, is not valid
\* and scores 0.3 less than it does against "any"; against "any" no type
\* error is recorded.
C23_TypeMismatchStated ==
    ret.op = "validate_output" =>
        /\ (/\ ret.output.type # "NoneType"
            /\ \/ ret.expected_type = "string" /\ ret.output.type # "str"
               \/ ret.expected_type = "mapping" /\ ret.output.type # "dict"
               \/ ret.expected_type = "sequence" /\ ret.output.type # "list") =>
               /\ ret.result.errors # <<>>
               /\ ret.result.errors[1] =
                      "Expected " \o ret.expected_type \o ", got " \o ret.output.type
               /\ ~ret.result.valid
               /\ ret.result.score =
                      validate_output("step", ret.output, "any").score - TYPE_PENALTY
        /\ ret.expected_type = "any" =>
               \A i \in DOMAIN ret.result.errors :
                   ret.result.errors[i] \in
                       {"Output is None", "Output dictionary is empty"}

\* C23: for the expected types string, dict and list, an output other than
\* None of another type gets a type error, is not valid and scores 0.3 less
\* than it does against "any"; against "any" no type error is recorded.
C23_TypeMismatch ==
    ret.op = "validate_output" =>
        /\ (/\ ret.output.type # "NoneType"
            /\ \/ ret.expected_type = "string" /\ ret.output.type # "str"
               \/ ret.expected_type = "dict" /\ ret.output.type # "dict"
               \/ ret.expected_type = "list" /\ ret.output.type # "list") =>
               /\ ret.result.errors # <<>>
               /\ ret.result.errors[1] =
                      "Expected " \o ret.expected_type \o ", got " \o ret.output.type
               /\ ~ret.result.valid
               /\ ret.result.score =
                      validate_output("step", ret.output, "any").score - TYPE_PENALTY
        /\ ret.expected_type = "any" =>
               \A i \in DOMAIN ret.result.errors :
                   ret.result.errors[i] \in
                       {"Output is None", "Output dictionary is empty"}

\* A string has been validated against the expected type list.
C23_StringAgainstList ==
    /\ ret.op = "validate_output"
    /\ ret.expected_type = "list"
    /\ ret.output.type = "str"
    /\ ret.result.errors[1] = "Expected list, got str"
    /\ ret.result.score <= 100 - TYPE_PENALTY

\* C24: a string validated against "string" or "any" is valid and without
\* errors; it loses 0.1 when shorter than 10 characters, 0.05 when longer
\* than 100000, and a further 0.1 when it has fewer than 5 spaces, with one
\* warning for each; a short string with fewer than 5 spaces scores 0.8
\* with two warnings.
C24_StringRules ==
    (/\ ret.op = "validate_output"
     /\ ret.output.type = "str"
     /\ ret.expected_type \in {"string", "any"}) =>
        LET short == ret.output.len < MIN_OUTPUT_LENGTH
            large == ret.output.len > MAX_OUTPUT_LENGTH
            plain == ret.output.spaces < MIN_SPACES
        IN  /\ ret.result.valid
            /\ ret.result.errors = <<>>
            /\ ret.result.score =
                   100 - (IF short THEN 10 ELSE 0) - (IF large THEN 5 ELSE 0)
                       - (IF plain THEN 10 ELSE 0)
            /\ ret.result.warnings =
                   (IF short THEN <<"Output seems too short">> ELSE <<>>)
                       \o (IF large THEN <<"Output is very large">> ELSE <<>>)
                       \o (IF plain THEN <<"Output may lack detail">> ELSE <<>>)
            /\ (short /\ plain) =>
                   ret.result.score = 80 /\ Len(ret.result.warnings) = 2

\* A short string with fewer than 5 spaces has been validated.
C24_ShortPlainString ==
    /\ ret.op = "validate_output"
    /\ ret.output = Output("str", 4, 0)
    /\ ret.expected_type = "string"
    /\ Len(ret.result.warnings) = 2

\* C29: a valid result scores at least 0.8 and a result that is not valid
\* at most 0.7.
C29_ScoreSeparatesValidity ==
    ret.op = "validate_output" =>
        /\ ret.result.valid => ret.result.score >= 80
        /\ ~ret.result.valid => ret.result.score <= 70

\* Both sides of the gap occur: an empty list was found valid at 0.8, or an
\* output of the wrong type and nothing else wrong was rejected at 0.7.
C29_AtTheGap ==
    /\ ret.op = "validate_output"
    /\ \/ ret.output.type = "list" /\ ret.result.valid /\ ret.result.score = 80
       \/ ret.output.type = "int" /\ ~ret.result.valid /\ ret.result.score = 70

=============================================================================
